---- MODULE Spec2Model ----
(***************************************************************************)
(* Model of the medow resumable downloader (package downloader).           *)
(*                                                                         *)
(* Spec        : Downloader.Download with its background progress          *)
(*               reporter, the files at FilePath and ProgressPath, process *)
(*               exit, kill and restart.                                   *)
(* SpecDurable : Spec plus the OS writing the output file back to stable   *)
(*               storage.                                                  *)
(* SpecLimit   : Downloader.DownloadChunksWithLimit against a clock.       *)
(***************************************************************************)
EXTENDS Integers, Sequences, FiniteSets, TLC

(* ---------------------------- bounds ----------------------------------- *)
\* number of bytes of the served content
ContentSize == 3
\* d.BufferSize scaled down (32768 in NewDownloader)
BufferSize == 2
\* number of Download runs (process starts) that are followed
MaxRuns == 2
\* number of ticker firings per run that are followed
MaxTicks == 2
\* largest rate cap handed to DownloadChunksWithLimit, in bytes per second
MaxSpeed == 4
\* clock units per second (time.Second scaled down)
Second == 2

\* largest byte count a rewrite of the sidecar persists
MaxValue == 12

\* the ticker period in milliseconds, added to PassedMilliSc per tick
TickMillis == 1000

\* the served content: byte i has value i (0 is the zero byte of a file hole)
Content == [i \in 1..ContentSize |-> i]

Min(a, b) == IF a <= b THEN a ELSE b
Max(a, b) == IF a >= b THEN a ELSE b

(* ------------------------ decimal conversion --------------------------- *)
DigitChar == <<"0", "1", "2", "3", "4", "5", "6", "7", "8", "9">>
IsDigit(c) == \E i \in 1..10 : DigitChar[i] = c
DigitVal(c) == CHOOSE i \in 0..9 : DigitChar[i + 1] = c

\* fmt.Sprintf("%d", n) for n >= 0
RECURSIVE Itoa(_)
Itoa(n) ==
  IF n < 10 THEN <<DigitChar[n + 1]>>
  ELSE Itoa(n \div 10) \o <<DigitChar[(n % 10) + 1]>>

RECURSIVE DigitsValue(_)
DigitsValue(s) ==
  IF s = <<>> THEN 0
  ELSE 10 * DigitsValue(SubSeq(s, 1, Len(s) - 1)) + DigitVal(s[Len(s)])

\* strconv.ParseInt(s, 10, 64): an optional sign, then one or more digits
ParseInt(s) ==
  LET signed == Len(s) > 0 /\ s[1] \in {"-", "+"}
      digits == IF signed THEN SubSeq(s, 2, Len(s)) ELSE s
  IN  IF digits = <<>> \/ \E i \in 1..Len(digits) : ~IsDigit(digits[i])
      THEN [ok |-> FALSE, val |-> 0]
      ELSE [ok |-> TRUE,
            val |-> IF signed /\ s[1] = "-" THEN 0 - DigitsValue(digits)
                    ELSE DigitsValue(digits)]

(* ----------------------------- files ----------------------------------- *)
\* no file at the path: a value that no file content (a sequence of
\* one-character strings) equals
Absent == <<"absent">>

\* (*os.File).Write at cursor pos: overwrites, extends, zero-fills a hole
WriteAt(f, pos, data) ==
  LET newLen == Max(Len(f), pos + Len(data))
  IN  [i \in 1..newLen |->
         IF i > pos /\ i <= pos + Len(data) THEN data[i - pos]
         ELSE IF i <= Len(f) THEN f[i]
         ELSE 0]

\* the same for the sidecar, whose bytes are characters
WriteStringAt(f, pos, data) ==
  LET newLen == Max(Len(f), pos + Len(data))
  IN  [i \in 1..newLen |->
         IF i > pos /\ i <= pos + Len(data) THEN data[i - pos]
         ELSE IF i <= Len(f) THEN f[i]
         ELSE "0"]

\* the baseline ReadProgress derives from the file at ProgressPath
ProgressValue(file) ==
  IF file = Absent THEN 0
  ELSE LET p == ParseInt(file)
       IN  IF ~p.ok \/ p.val < 0 THEN 0 ELSE p.val

VARIABLES
  \* Downloader fields
  UseProgressFile, Downloaded, TotalSize, ResumedAt, PassedMilliSc,
  OutputFile,      \* handle: "nil", "open", "closed"
  ProgressFile,    \* handle: "nil", "open", "closed"
  \* Download's position and locals
  pc, err, req, resp, n, readErr,
  \* handle state kept by the OS
  outPos,          \* write cursor of OutputFile
  pfPos,           \* cursor of ProgressFile
  pfLinked,        \* ProgressFile's inode is still the file at ProgressPath
  \* reporter goroutine
  rpc, current, emitted,
  \* file system
  outFile, outDisk, sidecar,
  \* history
  runs, sidecar0, outFile0,
  \* DownloadChunksWithLimit
  maxSpeedBytes, totalBytes, startTime, clock, lpc, sleepDuration

dvars == <<UseProgressFile, Downloaded, TotalSize, ResumedAt, PassedMilliSc,
           OutputFile, ProgressFile>>
lvars == <<pc, err, req, resp, n, readErr>>
hvars == <<outPos, pfPos, pfLinked>>
rvars == <<rpc, current, emitted>>
fvars == <<outFile, outDisk, sidecar>>
gvars == <<runs, sidecar0, outFile0>>
limvars == <<maxSpeedBytes, totalBytes, startTime, clock, lpc, sleepDuration>>
vars == <<dvars, lvars, hvars, rvars, fvars, gvars, limvars>>

NoReq == [range |-> -1]
NoResp == [status |-> 0, contentLength |-> "absent", body |-> <<>>]

\* sidecars a first run may find: none, empty, junk, negative, and offsets
\* (among them one beyond the content, left by another download)
InitSidecars ==
  {Absent, <<>>, <<"x">>, <<"-", "1">>, <<"1", "2">>}
    \cup {Itoa(i) : i \in 0..1}

\* NewDownloader: a zeroed Downloader for the given useProgressFile
NewDownloader(useProgressFile) ==
  /\ UseProgressFile' = useProgressFile
  /\ Downloaded' = 0
  /\ TotalSize' = 0
  /\ ResumedAt' = 0
  /\ PassedMilliSc' = 0
  /\ OutputFile' = "nil"
  /\ ProgressFile' = "nil"
  /\ pc' = "idle"
  /\ err' = "nil"
  /\ req' = NoReq
  /\ resp' = NoResp
  /\ n' = 0
  /\ readErr' = "nil"
  /\ outPos' = 0
  /\ pfPos' = 0
  /\ pfLinked' = FALSE
  /\ rpc' = "off"
  /\ current' = 0
  /\ emitted' = FALSE

LimitIdle ==
  /\ maxSpeedBytes = 1
  /\ totalBytes = 0
  /\ startTime = 0
  /\ clock = 0
  /\ lpc = "off"
  /\ sleepDuration = 0

Init ==
  /\ UseProgressFile \in BOOLEAN
  /\ Downloaded = 0
  /\ TotalSize = 0
  /\ ResumedAt = 0
  /\ PassedMilliSc = 0
  /\ OutputFile = "nil"
  /\ ProgressFile = "nil"
  /\ pc = "idle"
  /\ err = "nil"
  /\ req = NoReq
  /\ resp = NoResp
  /\ n = 0
  /\ readErr = "nil"
  /\ outPos = 0
  /\ pfPos = 0
  /\ pfLinked = FALSE
  /\ rpc = "off"
  /\ current = 0
  /\ emitted = FALSE
  /\ outFile = <<>>
  /\ outDisk = <<>>
  /\ sidecar \in InitSidecars
  /\ runs = 1
  /\ sidecar0 = sidecar
  /\ outFile0 = outFile
  /\ LimitIdle

(* --------------------------- Download ---------------------------------- *)

\* ReadProgressFails without the test for a negative number
ReadProgressFailsNoNegative ==
  \/ sidecar = Absent
  \/ ~ParseInt(sidecar).ok

\* ReadProgress: the file is read and parsed; a missing file, a parse error
\* or a negative number set Downloaded to 0 and leave ResumedAt alone
ReadProgressFails ==
  \/ sidecar = Absent
  \/ ~ParseInt(sidecar).ok
  \/ ParseInt(sidecar).val < 0

\* SetsRange that also asks for the range starting at offset 0
SetsRangeAlways(v) == v >= 0

\* whether CreateRequest sets the Range header after ReadProgress left v
SetsRange(v) == v > 0

\* CreateRequest: reads the sidecar when enabled, sets the Range header
CreateRequest ==
  /\ pc = "idle"
  /\ IF UseProgressFile
     THEN IF ReadProgressFails
          THEN /\ Downloaded' = 0
               /\ ResumedAt' = ResumedAt
               /\ req' = [range |-> -1]
          ELSE LET parsedNum == ParseInt(sidecar).val
               IN  /\ Downloaded' = parsedNum
                   /\ ResumedAt' = parsedNum
                   /\ req' = [range |-> IF SetsRange(parsedNum)
                                        THEN parsedNum ELSE -1]
     ELSE /\ UNCHANGED <<Downloaded, ResumedAt>>
          /\ req' = [range |-> -1]
  /\ pc' = "request"
  /\ UNCHANGED <<UseProgressFile, TotalSize, PassedMilliSc, OutputFile,
                 ProgressFile, err, resp, n, readErr>>
  /\ UNCHANGED <<hvars, rvars, fvars, gvars, limvars>>

\* the statuses a server may answer the request with: an error status, 200
\* with the full content (also when it ignores Range), or, honoring Range,
\* 206 for an offset inside the content and 416 for one at or past its end
ServerStatuses(range) ==
  IF range < 0 THEN {200, 404}
  ELSE {200, 404, IF range < ContentSize THEN 206 ELSE 416}

ServerBody(status, range) ==
  IF status = 200 THEN Content
  ELSE IF status = 206 THEN SubSeq(Content, range + 1, ContentSize)
  ELSE <<>>

\* httpClient.Do fails: Download returns the transport error
DoRequestFails ==
  /\ pc = "request"
  /\ err' = "transport"
  /\ pc' = "returned"
  /\ UNCHANGED <<dvars, req, resp, n, readErr>>
  /\ UNCHANGED <<hvars, rvars, fvars, gvars, limvars>>

\* ValidateResponse without the test for a rejected resume
ValidateResponseNoResume(r) ==
  IF r.status # 200 /\ r.status # 206 THEN "badstatus"
  ELSE IF r.contentLength = "malformed" THEN "contentlen"
  ELSE "nil"

\* the status and Content-Length checks of Download on response r
ValidateResponse(r) ==
  IF r.status # 200 /\ r.status # 206 THEN "badstatus"
  ELSE IF Downloaded > 0 /\ r.status # 206 THEN "resume"
  ELSE IF r.contentLength = "malformed" THEN "contentlen"
  ELSE "nil"

\* httpClient.Do answers; Download validates the response and sets TotalSize
DoRequest ==
  /\ pc = "request"
  /\ \E status \in ServerStatuses(req.range),
        cl \in {"present", "absent", "malformed"} :
       LET r == [status |-> status, contentLength |-> cl,
                 body |-> ServerBody(status, req.range)]
           e == ValidateResponse(r)
       IN  /\ resp' = r
           /\ err' = e
           /\ pc' = IF e = "nil" THEN "validated" ELSE "returned"
           /\ TotalSize' = IF e = "nil" /\ cl = "present"
                           THEN Downloaded + Len(r.body)
                           ELSE TotalSize
  /\ UNCHANGED <<UseProgressFile, Downloaded, ResumedAt, PassedMilliSc,
                 OutputFile, ProgressFile, req, n, readErr>>
  /\ UNCHANGED <<hvars, rvars, fvars, gvars, limvars>>

\* os.OpenFile(FilePath, O_CREATE|O_WRONLY) fails, or the Seek after it
\* (the handle is then closed by the deferred Close)
OpenOutputFails ==
  /\ pc = "validated"
  /\ \E opened \in BOOLEAN :
       OutputFile' = IF opened THEN "closed" ELSE "nil"
  /\ err' = "open"
  /\ pc' = "returned"
  /\ UNCHANGED <<UseProgressFile, Downloaded, TotalSize, ResumedAt,
                 PassedMilliSc, ProgressFile, req, resp, n, readErr>>
  /\ UNCHANGED <<hvars, rvars, fvars, gvars, limvars>>

\* SeekOffset that leaves the output file at its start: Seek(0, 0)
SeekOffsetZero(downloaded) == Min(0, downloaded)

\* SeekOffset that positions the output file at its end: Seek(0, io.SeekEnd)
SeekOffsetEnd(downloaded) == Len(outFile)

\* the seek offset Download positions the output file at
SeekOffset(downloaded) == downloaded

\* os.OpenFile(FilePath, O_CREATE|O_WRONLY) without truncation, Seek
OpenOutput ==
  /\ pc = "validated"
  /\ OutputFile' = "open"
  /\ outPos' = SeekOffset(Downloaded)
  /\ pc' = "outopen"
  /\ UNCHANGED <<UseProgressFile, Downloaded, TotalSize, ResumedAt,
                 PassedMilliSc, ProgressFile, err, req, resp, n, readErr>>
  /\ UNCHANGED <<pfPos, pfLinked, rvars, fvars, gvars, limvars>>

\* os.OpenFile(ProgressPath, O_CREATE|O_RDWR) fails; deferred Close of output
OpenProgressFails ==
  /\ pc = "outopen"
  /\ OutputFile' = "closed"
  /\ err' = "open"
  /\ pc' = "returned"
  /\ UNCHANGED <<UseProgressFile, Downloaded, TotalSize, ResumedAt,
                 PassedMilliSc, ProgressFile, req, resp, n, readErr>>
  /\ UNCHANGED <<hvars, rvars, fvars, gvars, limvars>>

\* os.OpenFile(ProgressPath, O_CREATE|O_RDWR) creates the sidecar when it is
\* absent; ManageProgressPrinter starts the reporter goroutine
OpenProgress ==
  /\ pc = "outopen"
  /\ ProgressFile' = "open"
  /\ pfPos' = 0
  /\ pfLinked' = TRUE
  /\ sidecar' = IF sidecar = Absent THEN <<>> ELSE sidecar
  /\ rpc' = "select"
  /\ pc' = "read"
  /\ UNCHANGED <<UseProgressFile, Downloaded, TotalSize, ResumedAt,
                 PassedMilliSc, OutputFile, err, req, resp, n, readErr>>
  /\ UNCHANGED <<outPos, current, emitted, outFile, outDisk, gvars,
                 limvars>>

(* ------------------------- DownloadChunks ------------------------------ *)

\* what body.Read may return with k bytes left in the body: (n, readErr)
\* with n <= len(buf); io.EOF only once the body is exhausted; an error at
\* any point.  (0, nil) changes nothing and is left out.
ReadResults(k) ==
  {<<m, "nil">> : m \in 1..Min(BufferSize, k)}
    \cup {<<m, "read">> : m \in 0..Min(BufferSize, k)}
    \cup (IF k <= BufferSize THEN {<<k, "EOF">>} ELSE {})

\* AfterChunk that takes every non-nil readErr for the end of the stream
AfterChunkIgnoreErr(e) ==
  IF e = "nil" THEN [pc |-> "read", err |-> "nil"]
  ELSE [pc |-> "loopdone", err |-> "nil"]

\* the loop's exit on readErr after the chunk was handled
AfterChunk(e) ==
  IF e = "nil" THEN [pc |-> "read", err |-> "nil"]
  ELSE IF e = "EOF" THEN [pc |-> "loopdone", err |-> "nil"]
  ELSE [pc |-> "loopdone", err |-> "read"]

\* body.Read, then OutputFile.Write of the n bytes read.  n and readErr are
\* locals of one iteration: they are kept only while the iteration goes on.
ReadChunk ==
  /\ pc = "read"
  /\ \E res \in ReadResults(Len(resp.body)) :
       LET m == res[1]
           e == res[2]
       IN  /\ resp' = [resp EXCEPT !.body = SubSeq(@, m + 1, Len(@))]
           /\ IF m > 0
              THEN /\ outFile' = WriteAt(outFile, outPos, SubSeq(resp.body, 1, m))
                   /\ outPos' = outPos + m
                   /\ n' = m
                   /\ readErr' = e
                   /\ pc' = "add"
                   /\ err' = err
              ELSE /\ UNCHANGED <<outFile, outPos, n, readErr>>
                   /\ pc' = AfterChunk(e).pc
                   /\ err' = AfterChunk(e).err
  /\ UNCHANGED <<dvars, req, pfPos, pfLinked, rvars, outDisk, sidecar,
                 gvars, limvars>>

\* body.Read returned n > 0 bytes and OutputFile.Write fails after writing
\* k < n of them: the loop returns writeErr, Downloaded is not advanced
ReadChunkWriteFails ==
  /\ pc = "read"
  /\ \E res \in ReadResults(Len(resp.body)) :
       /\ res[1] > 0
       /\ \E k \in 0..(res[1] - 1) :
            /\ resp' = [resp EXCEPT !.body = SubSeq(@, res[1] + 1, Len(@))]
            /\ outFile' = WriteAt(outFile, outPos, SubSeq(resp.body, 1, k))
            /\ outPos' = outPos + k
  /\ pc' = "loopdone"
  /\ err' = "write"
  /\ UNCHANGED <<dvars, req, n, readErr, pfPos, pfLinked, rvars, outDisk,
                 sidecar, gvars, limvars>>

\* AddInt64 that stores the chunk length instead of adding it
AddInt64Store(v, delta) == delta

\* AddInt64 that adds the buffer's length instead of the chunk's
AddInt64Buf(v, delta) == v + BufferSize

\* the value atomic.AddInt64(&d.Downloaded, int64(n)) stores
AddInt64(v, delta) == v + delta

\* atomic.AddInt64(&d.Downloaded, n), then the readErr test of the loop
AddDownloaded ==
  /\ pc = "add"
  /\ Downloaded' = AddInt64(Downloaded, n)
  /\ pc' = AfterChunk(readErr).pc
  /\ err' = AfterChunk(readErr).err
  /\ n' = 0
  /\ readErr' = "nil"
  /\ UNCHANGED <<UseProgressFile, TotalSize, ResumedAt, PassedMilliSc,
                 OutputFile, ProgressFile, req, resp>>
  /\ UNCHANGED <<hvars, rvars, fvars, gvars, limvars>>

(* ---------------------- Download: after the loop ----------------------- *)

\* RemovesSidecar that removes the sidecar whatever the loop returned
RemovesSidecarAlways(e) == TRUE

\* whether Download removes the sidecar after the loop returned e
RemovesSidecar(e) == e = "nil"

\* if err == nil { os.Remove(ProgressPath) }
Finish ==
  /\ pc = "loopdone"
  /\ IF RemovesSidecar(err)
     THEN /\ sidecar' = Absent
          /\ pfLinked' = FALSE
     ELSE UNCHANGED <<sidecar, pfLinked>>
  /\ pc' = "deferred"
  /\ UNCHANGED <<dvars, err, req, resp, n, readErr, outPos, pfPos, rvars,
                 outFile, outDisk, gvars, limvars>>

\* the deferred ProgressFile.Close(), OutputFile.Close(), resp.Body.Close()
\* run as Download returns
Return ==
  /\ pc = "deferred"
  /\ ProgressFile' = "closed"
  /\ OutputFile' = "closed"
  /\ pc' = "returned"
  /\ UNCHANGED <<UseProgressFile, Downloaded, TotalSize, ResumedAt,
                 PassedMilliSc, err, req, resp, n, readErr>>
  /\ UNCHANGED <<hvars, rvars, fvars, gvars, limvars>>

(* ----------------------- ManageProgressPrinter ------------------------- *)

\* whether the tick reports percentage, speed and ETA (PrintFormattedInfo)
PrintsInfo == TotalSize > 0

\* select, case <-ticker.C: sample Downloaded, advance PassedMilliSc, print,
\* and, ProgressFile being set, d.ProgressFile.Seek(0, 0), which fails
\* unnoticed on a closed handle.
\* The other case, <-stopChan, is never ready: Download creates stopChan and
\* neither closes it nor sends on it, so the goroutine has no way out.
Tick ==
  /\ rpc = "select"
  /\ PassedMilliSc < MaxTicks * TickMillis
  /\ current' = Downloaded
  /\ PassedMilliSc' = PassedMilliSc + TickMillis
  /\ emitted' = (emitted \/ PrintsInfo)
  /\ IF ProgressFile # "nil"
     THEN /\ pfPos' = IF ProgressFile = "open" THEN 0 ELSE pfPos
          /\ rpc' = "truncate"
     ELSE UNCHANGED <<pfPos, rpc>>
  /\ UNCHANGED <<UseProgressFile, Downloaded, TotalSize, ResumedAt,
                 OutputFile, ProgressFile>>
  /\ UNCHANGED <<lvars, outPos, pfLinked, fvars, gvars, limvars>>

\* Truncate that leaves the file as it is
TruncateSkipped(file) == file

\* os.File.Truncate(0): the file is empty afterwards
Truncate(file) == <<>>

\* d.ProgressFile.Truncate(0)
ProgressTruncate ==
  /\ rpc = "truncate"
  /\ sidecar' = IF ProgressFile = "open" /\ pfLinked
                THEN Truncate(sidecar)
                ELSE sidecar
  /\ rpc' = "write"
  /\ UNCHANGED <<dvars, lvars, hvars, current, emitted, outFile, outDisk,
                 gvars, limvars>>

\* ProgressWrite that opens ProgressPath anew for each write instead of
\* writing through the handle Download opened
ProgressWriteByPath ==
  /\ rpc = "write"
  /\ IF ProgressFile = "open"
     THEN /\ sidecar' = WriteStringAt(IF sidecar = Absent THEN <<>> ELSE sidecar,
                                      pfPos, Itoa(current))
          /\ pfPos' = pfPos + Len(Itoa(current))
     ELSE UNCHANGED <<sidecar, pfPos>>
  /\ rpc' = "sync"
  /\ UNCHANGED <<dvars, lvars, outPos, pfLinked, current, emitted, outFile,
                 outDisk, gvars, limvars>>

\* d.ProgressFile.WriteString(fmt.Sprintf("%d", current))
ProgressWrite ==
  /\ rpc = "write"
  /\ IF ProgressFile = "open"
     THEN /\ sidecar' = IF pfLinked
                        THEN WriteStringAt(sidecar, pfPos, Itoa(current))
                        ELSE sidecar
          /\ pfPos' = pfPos + Len(Itoa(current))
     ELSE UNCHANGED <<sidecar, pfPos>>
  /\ rpc' = "sync"
  /\ UNCHANGED <<dvars, lvars, outPos, pfLinked, current, emitted, outFile,
                 outDisk, gvars, limvars>>

\* d.ProgressFile.Sync(): what the sidecar holds is on stable storage from
\* here on; the tick is over
ProgressSync ==
  /\ rpc = "sync"
  /\ rpc' = "select"
  /\ UNCHANGED <<dvars, lvars, hvars, current, emitted, fvars, gvars,
                 limvars>>

(* ------------------ process and operating system ----------------------- *)

\* the process is gone: its memory, handles and goroutines with it
ProcessGone(how) ==
  /\ Downloaded' = 0
  /\ TotalSize' = 0
  /\ ResumedAt' = 0
  /\ PassedMilliSc' = 0
  /\ OutputFile' = "nil"
  /\ ProgressFile' = "nil"
  /\ pc' = how
  /\ err' = "nil"
  /\ req' = NoReq
  /\ resp' = NoResp
  /\ n' = 0
  /\ readErr' = "nil"
  /\ outPos' = 0
  /\ pfPos' = 0
  /\ pfLinked' = FALSE
  /\ rpc' = "dead"
  /\ current' = 0
  /\ emitted' = FALSE
  /\ UNCHANGED <<UseProgressFile, gvars>>

\* main returns after d.Download(): the process exits
Exit ==
  /\ pc = "returned"
  /\ ProcessGone("exited")
  /\ UNCHANGED <<fvars, limvars>>

\* the process is killed at any point; what the files hold stays
Kill ==
  /\ pc \notin {"exited", "crashed"}
  /\ ProcessGone("crashed")
  /\ UNCHANGED <<fvars, limvars>>

\* the OS writes the output file's dirty pages back (the code never calls
\* OutputFile.Sync, so this is the only way they reach stable storage)
Writeback ==
  /\ outDisk # outFile
  /\ outDisk' = outFile
  /\ UNCHANGED <<dvars, lvars, hvars, rvars, outFile, sidecar, gvars,
                 limvars>>

\* main: NewDownloader(os.Args[1], os.Args[2], true) in a new process; the
\* constructor takes either value of useProgressFile
Restart ==
  /\ pc \in {"exited", "crashed"}
  /\ runs < MaxRuns
  /\ \E u \in BOOLEAN : NewDownloader(u)
  /\ runs' = runs + 1
  /\ sidecar0' = sidecar
  /\ outFile0' = outFile
  /\ UNCHANGED <<fvars, limvars>>

Next ==
  \/ CreateRequest
  \/ DoRequestFails
  \/ DoRequest
  \/ OpenOutputFails
  \/ OpenOutput
  \/ OpenProgressFails
  \/ OpenProgress
  \/ ReadChunk
  \/ ReadChunkWriteFails
  \/ AddDownloaded
  \/ Finish
  \/ Return
  \/ Tick
  \/ ProgressTruncate
  \/ ProgressWrite
  \/ ProgressSync
  \/ Exit
  \/ Kill
  \/ Restart

Spec == Init /\ [][Next]_vars

\* the same with the OS's writeback of the output file followed
NextDurable ==
  \/ Next
  \/ Writeback

SpecDurable == Init /\ [][NextDurable]_vars

(* -------------------- DownloadChunksWithLimit -------------------------- *)

\* a Downloader whose output file is open at offset 0, about to stream the
\* content through DownloadChunksWithLimit(body, maxSpeedBytes); startTime is
\* the clock's reading then
InitLimit ==
  /\ UseProgressFile = FALSE
  /\ Downloaded = 0
  /\ TotalSize = 0
  /\ ResumedAt = 0
  /\ PassedMilliSc = 0
  /\ OutputFile = "open"
  /\ ProgressFile = "nil"
  /\ pc = "limit"
  /\ err = "nil"
  /\ req = NoReq
  /\ resp = [status |-> 200, contentLength |-> "absent", body |-> Content]
  /\ n = 0
  /\ readErr = "nil"
  /\ outPos = 0
  /\ pfPos = 0
  /\ pfLinked = FALSE
  /\ rpc = "off"
  /\ current = 0
  /\ emitted = FALSE
  /\ outFile = <<>>
  /\ outDisk = <<>>
  /\ sidecar = Absent
  /\ runs = 1
  /\ sidecar0 = Absent
  /\ outFile0 = <<>>
  /\ maxSpeedBytes \in 1..MaxSpeed
  /\ totalBytes = 0
  /\ startTime = 0
  /\ clock = 0
  /\ lpc = "read"
  /\ sleepDuration = 0

\* time.Duration(float64(totalBytes)/float64(maxSpeedBytes)) * time.Second:
\* the conversion to Duration drops the quotient's fraction before the
\* multiplication
ExpectedDuration(total, speed) == (total \div speed) * Second

\* the loop's exit on readErr
LimitAfter(e) ==
  IF e = "nil" THEN [lpc |-> "read", err |-> "nil"]
  ELSE IF e = "EOF" THEN [lpc |-> "done", err |-> "nil"]
  ELSE [lpc |-> "done", err |-> "read"]

\* one iteration up to the sleep: body.Read, OutputFile.Write, the add to
\* Downloaded and totalBytes, the sleep's length; reading and writing took
\* dt units of time
LimitChunk ==
  /\ lpc = "read"
  /\ \E res \in ReadResults(Len(resp.body)), dt \in 0..1 :
       LET m == res[1]
           e == res[2]
           total == totalBytes + m
           elapsed == (clock + dt) - startTime
           sleep == ExpectedDuration(total, maxSpeedBytes) - elapsed
       IN  /\ resp' = [resp EXCEPT !.body = SubSeq(@, m + 1, Len(@))]
           /\ clock' = clock + dt
           /\ IF m > 0
              THEN /\ outFile' = WriteAt(outFile, outPos, SubSeq(resp.body, 1, m))
                   /\ outPos' = outPos + m
                   /\ Downloaded' = AddInt64(Downloaded, m)
                   /\ totalBytes' = total
                   /\ IF sleep > 0
                      THEN /\ sleepDuration' = sleep
                           /\ readErr' = e
                           /\ lpc' = "sleep"
                           /\ err' = err
                      ELSE /\ UNCHANGED <<sleepDuration, readErr>>
                           /\ lpc' = LimitAfter(e).lpc
                           /\ err' = LimitAfter(e).err
              ELSE /\ UNCHANGED <<outFile, outPos, Downloaded, totalBytes,
                                  sleepDuration, readErr>>
                   /\ lpc' = LimitAfter(e).lpc
                   /\ err' = LimitAfter(e).err
  /\ UNCHANGED <<UseProgressFile, TotalSize, ResumedAt, PassedMilliSc,
                 OutputFile, ProgressFile, pc, req, n, pfPos, pfLinked,
                 rvars, outDisk, sidecar, gvars, maxSpeedBytes, startTime>>

\* OutputFile.Write fails after k < n bytes: the loop returns writeErr
LimitChunkWriteFails ==
  /\ lpc = "read"
  /\ \E res \in ReadResults(Len(resp.body)), dt \in 0..1 :
       /\ res[1] > 0
       /\ clock' = clock + dt
       /\ \E k \in 0..(res[1] - 1) :
            /\ resp' = [resp EXCEPT !.body = SubSeq(@, res[1] + 1, Len(@))]
            /\ outFile' = WriteAt(outFile, outPos, SubSeq(resp.body, 1, k))
            /\ outPos' = outPos + k
  /\ lpc' = "done"
  /\ err' = "write"
  /\ UNCHANGED <<dvars, pc, req, n, readErr, pfPos, pfLinked, rvars, outDisk,
                 sidecar, gvars, maxSpeedBytes, totalBytes, startTime,
                 sleepDuration>>

\* time.Sleep(sleepDuration) returns once at least that long has passed,
\* then the readErr test of the loop
LimitSleep ==
  /\ lpc = "sleep"
  /\ \E late \in 0..1 : clock' = clock + sleepDuration + late
  /\ sleepDuration' = 0
  /\ readErr' = "nil"
  /\ lpc' = LimitAfter(readErr).lpc
  /\ err' = LimitAfter(readErr).err
  /\ UNCHANGED <<dvars, pc, req, resp, n, hvars, rvars, fvars, gvars,
                 maxSpeedBytes, totalBytes, startTime>>

NextLimit ==
  \/ LimitChunk
  \/ LimitChunkWriteFails
  \/ LimitSleep

SpecLimit == InitLimit /\ [][NextLimit]_vars

(* ------------------ the sidecar's rewrite, interrupted ------------------ *)

\* what the sidecar may hold when a tick rewrites it: what an earlier run or
\* tick left, OpenProgress having created the file if it was missing
RewriteSidecars ==
  (InitSidecars \ {Absent}) \cup {Itoa(v) : v \in 0..MaxValue}

\* a run in the middle of streaming a body of unknown length: Downloaded
\* bytes are written and counted, body.Read is waiting for more, and the
\* reporter goroutine is at its select
InitRewrite ==
  /\ UseProgressFile \in BOOLEAN
  /\ sidecar \in RewriteSidecars
  /\ ResumedAt = IF UseProgressFile THEN ProgressValue(sidecar) ELSE 0
  /\ ResumedAt <= MaxValue
  /\ Downloaded \in ResumedAt..MaxValue
  /\ TotalSize = 0
  /\ PassedMilliSc = 0
  /\ OutputFile = "open"
  /\ ProgressFile = "open"
  /\ pc = "read"
  /\ err = "nil"
  /\ req = [range |-> IF ResumedAt > 0 THEN ResumedAt ELSE -1]
  /\ resp = [status |-> IF ResumedAt > 0 THEN 206 ELSE 200,
             contentLength |-> "absent", body |-> <<>>]
  /\ n = 0
  /\ readErr = "nil"
  /\ outPos = Downloaded
  /\ pfPos = 0
  /\ pfLinked = TRUE
  /\ rpc = "select"
  /\ current = 0
  /\ emitted = FALSE
  /\ outFile = [i \in 1..Downloaded |-> i]
  /\ outDisk = <<>>
  /\ runs = 1
  /\ sidecar0 = sidecar
  /\ outFile0 = SubSeq(outFile, 1, ResumedAt)
  /\ LimitIdle

\* the process is killed inside WriteString, after k of the digits, not all
\* of them, reached the file
KillDuringWrite ==
  /\ rpc = "write"
  /\ ProgressFile = "open"
  /\ \E k \in 1..(Len(Itoa(current)) - 1) :
       sidecar' = IF pfLinked
                  THEN WriteStringAt(sidecar, pfPos,
                                     SubSeq(Itoa(current), 1, k))
                  ELSE sidecar
  /\ ProcessGone("crashed")
  /\ UNCHANGED <<outFile, outDisk, limvars>>

NextRewrite ==
  \/ Tick
  \/ ProgressTruncate
  \/ ProgressWrite
  \/ ProgressSync
  \/ Kill
  \/ KillDuringWrite

SpecRewrite == InitRewrite /\ [][NextRewrite]_vars

(* ============================ properties =============================== *)

\* the offset the run found persisted, and whether the output file held the
\* content's first o bytes when the run began
StartOffset == ProgressValue(sidecar0)
HoldsPrefix(file, o) ==
  /\ Len(file) >= o
  /\ SubSeq(file, 1, o) = SubSeq(Content, 1, o)

\* the server honored the request: 200 to a plain one, 206 to a ranged one
ServerHonored == resp.status = (IF req.range < 0 THEN 200 ELSE 206)

\* C1 (resumption correctness): a run with progress enabled that finds the
\* persisted offset o < content size and an output file holding the first o
\* bytes, is answered as requested with Content-Length declared, and meets no
\* transport or file error, returns in Completed with Downloaded = TotalSize
\* = o + Content-Length and the output file equal to the content.
C1_ResumptionCorrect ==
  ( /\ pc = "returned"
    /\ UseProgressFile
    /\ StartOffset < ContentSize
    /\ HoldsPrefix(outFile0, StartOffset)
    /\ ServerHonored
    /\ resp.contentLength = "present"
    /\ err \notin {"transport", "open", "read", "write"} )
  => /\ err = "nil"
     /\ Downloaded = TotalSize
     /\ TotalSize = ContentSize
     /\ outFile = Content

\* a resumed run (o > 0) that completed
C1_Witness ==
  /\ pc = "returned"
  /\ UseProgressFile
  /\ StartOffset > 0
  /\ StartOffset < ContentSize
  /\ HoldsPrefix(outFile0, StartOffset)
  /\ resp.status = 206
  /\ resp.contentLength = "present"
  /\ err = "nil"
  /\ outFile = Content

\* C2 (persistence durability): when a tick has finished rewriting and
\* syncing the sidecar, the value the sidecar holds is at most the number of
\* bytes of the output file that are on stable storage (stated for the
\* states in which the bytes up to the resume baseline are on stable storage,
\* so that only bytes of this run can be the ones missing).
C2_SidecarNeverOverstates ==
  [][( /\ UseProgressFile
       /\ rpc = "sync"
       /\ rpc' = "select"
       /\ ProgressFile = "open"
       /\ pfLinked
       /\ ResumedAt <= Len(outDisk') )
       => ProgressValue(sidecar') <= Len(outDisk')]_vars

\* C3 (shutdown ordering): no step of a tick's rewrite (seek, truncate,
\* write, sync) is performed on a closed progress file handle.
C3_NoTickOnClosedHandle ==
  [][( \/ rpc = "select" /\ rpc' = "truncate"
       \/ rpc = "truncate" /\ rpc' = "write"
       \/ rpc = "write" /\ rpc' = "sync"
       \/ rpc = "sync" /\ rpc' = "select" )
       => ProgressFile = "open"]_vars

\* C4 (reporter release): once Download has returned, the reporter starts no
\* further tick.
C4_NoTickAfterReturn ==
  [][(pc = "returned" /\ rpc = "select") => rpc' \in {"select", "dead"}]_vars

\* C5 (sidecar lifecycle): the file at ProgressPath goes away only by the
\* step of Download that follows a streaming loop that returned no error; no
\* other step of any run, failed runs included, deletes it.
C5_RemovedOnlyOnCompletion ==
  [][(sidecar # Absent /\ sidecar' = Absent)
       => (pc = "loopdone" /\ err = "nil")]_vars

\* a run that failed while streaming and left the sidecar it found in place
C5_Witness ==
  /\ pc = "returned"
  /\ err \in {"read", "write"}
  /\ sidecar0 # Absent
  /\ sidecar # Absent

\* C6 (resume rejection): a run that sent Range: bytes=N- (N > 0) and got 200
\* returns the resume-rejected error, has not opened or written the output
\* file, has not started the reporter, and the sidecar is as it was, with
\* value N.
C6_ResumeRejected ==
  (pc = "returned" /\ req.range > 0 /\ resp.status = 200)
  => /\ err = "resume"
     /\ OutputFile = "nil"
     /\ outFile = outFile0
     /\ rpc = "off"
     /\ sidecar = sidecar0
     /\ ProgressValue(sidecar) = req.range

C6_Witness ==
  /\ pc = "returned"
  /\ req.range > 0
  /\ resp.status = 200
  /\ err = "resume"

\* C7 (useProgressFile false): while a Downloader built with useProgressFile
\* false runs, no Range header is sent and the file at ProgressPath is as the
\* run found it (not created, not written, not deleted).
C7_NoPersistenceWhenDisabled ==
  (~UseProgressFile /\ pc \notin {"exited", "crashed"})
  => (req.range = -1 /\ sidecar = sidecar0)

\* C8 (unknown size): with progress enabled and no Content-Length in the
\* response, every tick that finishes leaves TotalSize 0, has emitted no
\* status line, and leaves the sidecar holding the value it sampled.
C8_UnknownSizeStillPersists ==
  [][( /\ UseProgressFile
       /\ resp.contentLength = "absent"
       /\ resp.status \in {200, 206}
       /\ rpc = "sync"
       /\ rpc' = "select" )
       => /\ TotalSize' = 0
          /\ ~emitted'
          /\ sidecar' = Itoa(current')]_vars

\* C9 (rate limiting): after each chunk's throttling sleep, the bytes moved
\* are at most the cap times the elapsed time plus one buffer
\* (both sides in byte-clock-units).
C9_RateWithinOneChunk ==
  (lpc \in {"read", "done"})
  => totalBytes * Second
       <= maxSpeedBytes * (clock - startTime) + BufferSize * Second

\* C10 (monotonicity): from the step after CreateRequest until Download has
\* returned, no step lowers Downloaded, and no tick samples less than the
\* tick before it.
C10_Monotonic ==
  [][(pc \notin {"idle", "exited", "crashed"}
        /\ pc' \notin {"idle", "exited", "crashed"})
       => (Downloaded' >= Downloaded /\ current' >= current)]_vars

\* two ticks have sampled, the later one a positive value behind Downloaded
C10_Witness ==
  /\ PassedMilliSc = 2 * TickMillis
  /\ current > 0
  /\ current < Downloaded
  /\ rpc = "select"

\* C11 (idempotent completion): a run that finds no sidecar and the output
\* file already holding the whole content, and completes, leaves the output
\* file as it found it: the same content as after the first completed run.
C11_IdempotentCompletion ==
  ( /\ pc = "returned"
    /\ err = "nil"
    /\ runs > 1
    /\ sidecar0 = Absent
    /\ outFile0 = Content )
  => outFile = outFile0

\* a second run that completed over a complete output file
C11_Witness ==
  /\ pc = "returned"
  /\ err = "nil"
  /\ runs > 1
  /\ sidecar0 = Absent
  /\ outFile0 = Content
  /\ Downloaded = ContentSize
  /\ outFile = Content

\* C12 (sidecar write/read round trip): once a tick has finished rewriting
\* the sidecar through its open handle, the sidecar is exactly the decimal
\* form of the sampled value and reading it returns that value, whatever
\* the sidecar held before.
C12_SidecarRoundTrip ==
  ( /\ rpc = "select"
    /\ PassedMilliSc > 0
    /\ ProgressFile = "open"
    /\ pfLinked )
  => /\ sidecar = Itoa(current)
     /\ ParseInt(sidecar).ok
     /\ ParseInt(sidecar).val = current

\* a finished tick over a sidecar that held a longer decimal string
C12_Witness ==
  /\ rpc = "select"
  /\ PassedMilliSc > 0
  /\ ProgressFile = "open"
  /\ pfLinked
  /\ sidecar0 = <<"1", "2">>
  /\ Len(sidecar) < Len(sidecar0)
  /\ ProgressValue(sidecar) = current

\* C13 (request construction): the request carries Range: bytes=<offset>-
\* exactly when the sidecar is enabled and the baseline read from it at the
\* start of the run is positive, and then the offset is that baseline and
\* the transfer starts there; otherwise the request is plain and the
\* transfer starts at offset 0.
C13_RequestConstruction ==
  pc \in {"request", "validated", "outopen", "read", "add", "loopdone"}
  => /\ (req.range # -1) <=> (UseProgressFile /\ ProgressValue(sidecar0) > 0)
     /\ req.range # -1 => /\ req.range = ProgressValue(sidecar0)
                          /\ ResumedAt = req.range
     /\ req.range = -1 => ResumedAt = 0
     /\ pc \in {"request", "validated"} => Downloaded = Max(0, req.range)
     /\ pc = "outopen" => outPos = Max(0, req.range)

\* a request that resumes from a positive baseline
C13_Witness ==
  /\ pc = "request"
  /\ UseProgressFile
  /\ ProgressValue(sidecar0) > 0
  /\ req.range = ProgressValue(sidecar0)

\* C14 (baseline invariant): in every state Downloaded >= ResumedAt >= 0,
\* whatever the sidecar held at the start of the run, so the numerator of
\* the session throughput, Downloaded - ResumedAt, is never negative.
C14_BaselineInvariant ==
  /\ ResumedAt >= 0
  /\ Downloaded >= ResumedAt
  /\ rpc \in {"truncate", "write", "sync"} => current - ResumedAt >= 0

\* a resumed run that has streamed past its positive baseline
C14_Witness ==
  /\ pc = "read"
  /\ ResumedAt > 0
  /\ Downloaded > ResumedAt
  /\ rpc = "truncate"
  /\ current > ResumedAt

\* C15 (write-before-count): while the output file is open the counter
\* never exceeds the write cursor and equals it between iterations of the
\* streaming loop; no tick samples, and no finished tick has persisted, a
\* value larger than the number of bytes the write cursor has passed.
C15_WriteBeforeCount ==
  /\ OutputFile = "open" => Downloaded <= outPos
  /\ pc \in {"outopen", "read"} => Downloaded = outPos
  /\ (pc = "loopdone" /\ err # "write") => Downloaded = outPos
  /\ rpc \in {"select", "truncate", "write", "sync"} => current <= outPos
  /\ ( /\ rpc = "select"
       /\ PassedMilliSc > 0
       /\ ProgressFile = "open"
       /\ pfLinked ) => ProgressValue(sidecar) <= outPos

\* a chunk is written and not yet counted while a tick persists the count
C15_Witness ==
  /\ pc = "add"
  /\ n > 0
  /\ outPos = Downloaded + n
  /\ rpc = "sync"
  /\ current = Downloaded
  /\ current > 0
  /\ ProgressValue(sidecar) = current

\* C16 (streaming termination outcomes): the step that leaves the streaming
\* loop returns success exactly when the read reported end of stream, and
\* the read error otherwise; bytes that came with the terminating read
\* result are written and counted before the return; a chunk whose write
\* failed is not counted; once the loop has returned nothing more is read.
C16_StreamingTermination ==
  [][ /\ (pc = "add" /\ pc' = "loopdone")
         => /\ readErr \in {"EOF", "read"}
            /\ err' = "nil" <=> readErr = "EOF"
            /\ err' = "read" <=> readErr = "read"
            /\ Downloaded' = Downloaded + n
            /\ Downloaded' = outPos'
            /\ resp' = resp
      /\ (pc = "read" /\ pc' = "loopdone")
         => /\ err' \in {"nil", "read", "write"}
            /\ Downloaded' = Downloaded
            /\ err' = "nil" => resp.body = <<>>
            /\ err' \in {"nil", "read"} => /\ resp' = resp
                                           /\ outPos' = outPos
                                           /\ outFile' = outFile
            /\ err' = "write"
               => outPos' - outPos < Len(resp.body) - Len(resp'.body)
      /\ (pc = "add" /\ pc' = "read") => /\ readErr = "nil"
                                         /\ err' = "nil"
      /\ (pc = "loopdone" /\ pc' # "crashed") => /\ resp' = resp
                                                 /\ outFile' = outFile
                                                 /\ Downloaded' = Downloaded
    ]_vars

\* the loop has returned a read error after counting the bytes that came
\* with it, leaving part of the body unread
C16_Witness ==
  /\ pc = "loopdone"
  /\ err = "read"
  /\ Downloaded > ResumedAt
  /\ Downloaded = outPos
  /\ resp.body # <<>>

\* C17 (interrupted sidecar rewrite): when the process stops at any step of
\* a tick's rewrite of the sidecar (after the seek, after the truncate,
\* inside or after the write of the digits, before or after the sync), the
\* next read of the sidecar returns the value it held before, or 0, or a
\* value no larger than the one being written.
C17_InterruptedRewrite ==
  [][ ( /\ pc # "crashed"
        /\ pc' = "crashed"
        /\ rpc \in {"truncate", "write", "sync"}
        /\ ProgressFile = "open"
        /\ pfLinked )
      => \/ ProgressValue(sidecar') = ProgressValue(sidecar0)
         \/ ProgressValue(sidecar') = 0
         \/ ProgressValue(sidecar') <= current
    ]_vars

\* the process stopped between the truncate and the write: the sidecar that
\* held a two-digit value is empty
C17_Witness ==
  /\ pc = "crashed"
  /\ sidecar0 = <<"1", "2">>
  /\ sidecar = <<>>

\* C18 (sidecar stays deleted): after a run has completed and removed the
\* sidecar there is no file at ProgressPath for the rest of that run,
\* whatever the reporter's ticks do before and after the handle is closed;
\* a file appears at ProgressPath only when a run opens it before streaming.
C18_SidecarStaysDeleted ==
  [][ /\ (pc' \in {"deferred", "returned"} /\ err' = "nil")
         => sidecar' = Absent
      /\ (pc = "returned" /\ err = "nil" /\ pc' \in {"exited", "crashed"})
         => sidecar' = Absent
      /\ (sidecar = Absent /\ sidecar' # Absent)
         => (pc = "outopen" /\ pc' = "read")
    ]_vars

\* a completed run whose reporter is in the middle of a tick's rewrite on
\* the handle of the removed file
C18_Witness ==
  /\ pc = "deferred"
  /\ err = "nil"
  /\ sidecar = Absent
  /\ ProgressFile = "open"
  /\ ~pfLinked
  /\ rpc = "sync"
  /\ pfPos > 0

\* the server honors Range and answers a range that starts at or past the
\* end of the content with 416
RangeServer ==
  resp.status = (IF req.range < 0 THEN 200
                 ELSE IF req.range < ContentSize THEN 206
                 ELSE 416)

\* C19 (crash-restart progress): a run restarted with progress enabled on
\* what a killed run left (a persisted offset up to the content size and an
\* output file holding that many bytes of the content), against a server
\* that honors Range, with no transport or file error, returns in Completed
\* with the output file equal to the content.
C19_RestartCompletes ==
  ( /\ pc = "returned"
    /\ runs > 1
    /\ UseProgressFile
    /\ StartOffset <= ContentSize
    /\ HoldsPrefix(outFile0, StartOffset)
    /\ RangeServer
    /\ resp.contentLength # "malformed"
    /\ err \notin {"transport", "open", "read", "write"} )
  => /\ err = "nil"
     /\ outFile = Content

====
